---- MODULE Spec2Model ----
(***************************************************************************)
(* Customer Information Management System (fridayproject5.py).             *)
(*                                                                         *)
(* A Python str is modelled as a sequence of one-character strings, so     *)
(* that strip(), the e-mail regular expression, the digit count of the     *)
(* phone validator and strptime("%Y-%m-%d") are computed character by      *)
(* character.  The SQLite file is the record db; the Tk widgets are the    *)
(* record form.                                                            *)
(***************************************************************************)
EXTENDS Integers, Sequences, FiniteSets, TLC

VARIABLES
    running,    \* the process is inside app.mainloop()
    form,       \* contents of the six input widgets of App
    db,         \* customers.db: table_exists, customers, sqlite_sequence
    now,        \* the storage engine's clock (CURRENT_TIMESTAMP)
    open_conns, \* connections opened by insert_customer and not closed
    op,         \* name of the operation performed by the last step
    dialog,     \* the messagebox shown by the last step, <<>> if none
    calls,      \* the insert_customer calls made by the last step
    fields,     \* argument of the last validate_all library call
    result      \* value returned by the last validate_all library call

vars == <<running, form, db, now, open_conns, op, dialog, calls, fields, result>>

-----------------------------------------------------------------------------
(* Bounds of the model. *)

MaxRows == 2

MaxClock == 1

MaxLeaks == 1

-----------------------------------------------------------------------------
(* Characters and str helpers. *)

Whitespace == {" ", "\t", "\n"}

DigitSeq == <<"0", "1", "2", "3", "4", "5", "6", "7", "8", "9">>

Digits == {DigitSeq[i] : i \in 1..10}

IsDigit(c) == c \in Digits

DigitVal(c) == (CHOOSE i \in 1..10 : DigitSeq[i] = c) - 1

\* str.strip(): drop the leading and the trailing run of whitespace
Strip(s) ==
    LET keep == {i \in 1..Len(s) : s[i] \notin Whitespace}
    IN  IF keep = {} THEN <<>>
        ELSE LET a == CHOOSE i \in keep : \A j \in keep : i <= j
                 b == CHOOSE i \in keep : \A j \in keep : i >= j
             IN  SubSeq(s, a, b)

\* int() of a run of decimal digits
RECURSIVE ToInt(_)
ToInt(s) ==
    IF s = <<>> THEN 0
    ELSE 10 * ToInt(SubSeq(s, 1, Len(s) - 1)) + DigitVal(s[Len(s)])

-----------------------------------------------------------------------------
(* Validation helpers. *)

\* a character matched by the class [^@\s] of EMAIL_RE
EmailChar(c) == c /= "@" /\ c \notin Whitespace

AllEmailChars(s, a, b) == \A k \in a..b : EmailChar(s[k])

\* EMAIL_RE = ^[^@\s]+@[^@\s]+\.[^@\s]+$ , i the place of "@", j of the dot
EMAIL_RE(s) ==
    \E i \in 2..Len(s) : \E j \in (i + 2)..(Len(s) - 1) :
        /\ s[i] = "@"
        /\ s[j] = "."
        /\ AllEmailChars(s, 1, i - 1)
        /\ AllEmailChars(s, i + 1, j - 1)
        /\ AllEmailChars(s, j + 1, Len(s))

validate_name(name) == Len(Strip(name)) > 0

IsLeap(y) == (y % 4 = 0 /\ y % 100 /= 0) \/ y % 400 = 0

DaysInMonth(y, m) ==
    IF m = 2 THEN (IF IsLeap(y) THEN 29 ELSE 28)
    ELSE IF m \in {4, 6, 9, 11} THEN 30 ELSE 31

\* the directive %m = 1[0-2]|0[1-9]|[1-9] matches len characters at p
MonthMatches(s, p, len) ==
    IF len = 2
    THEN /\ p + 1 <= Len(s)
         /\ \/ s[p] = "1" /\ s[p + 1] \in {"0", "1", "2"}
            \/ s[p] = "0" /\ IsDigit(s[p + 1]) /\ s[p + 1] /= "0"
    ELSE /\ p <= Len(s)
         /\ IsDigit(s[p]) /\ s[p] /= "0"

\* length matched at q by %d = 3[0-1]|[1-2]\d|0[1-9]|[1-9]| [1-9]: the first
\* alternative that matches wins, since nothing of the pattern follows it
DayLen(s, q) ==
    IF q + 1 <= Len(s) /\ s[q] = "3" /\ s[q + 1] \in {"0", "1"} THEN 2
    ELSE IF q + 1 <= Len(s) /\ s[q] \in {"1", "2"} /\ IsDigit(s[q + 1]) THEN 2
    ELSE IF q + 1 <= Len(s) /\ s[q] = "0" /\ IsDigit(s[q + 1]) /\ s[q + 1] /= "0" THEN 2
    ELSE IF q <= Len(s) /\ IsDigit(s[q]) /\ s[q] /= "0" THEN 1
    ELSE IF q + 1 <= Len(s) /\ s[q] = " " /\ IsDigit(s[q + 1]) /\ s[q + 1] /= "0" THEN 2
    ELSE 0

\* the month alternative the regular expression settles on: the first, in
\* order, after which "-" and a day follow
MonthLen(s) ==
    LET ok(len) == /\ MonthMatches(s, 6, len)
                   /\ 6 + len <= Len(s)
                   /\ s[6 + len] = "-"
                   /\ DayLen(s, 6 + len + 1) > 0
    IN  IF ok(2) THEN 2 ELSE IF ok(1) THEN 1 ELSE 0

ValueError == [ok |-> FALSE, year |-> 0, month |-> 0, day |-> 0]

\* datetime.strptime(s, "%Y-%m-%d"): the parsed date, or ValueError
strptime(s) ==
    IF ~ (/\ Len(s) >= 5
          /\ \A k \in 1..4 : IsDigit(s[k])
          /\ s[5] = "-"
          /\ MonthLen(s) > 0)
    THEN ValueError                          \* does not match format
    ELSE LET ml == MonthLen(s)
             q  == 6 + ml + 1
             dl == DayLen(s, q)
             y  == ToInt(SubSeq(s, 1, 4))
             m  == ToInt(SubSeq(s, 6, 6 + ml - 1))
             d  == ToInt(Strip(SubSeq(s, q, q + dl - 1)))
         IN  IF q + dl - 1 /= Len(s) THEN ValueError     \* unconverted data
             ELSE IF y < 1 THEN ValueError                \* year 0
             ELSE IF d > DaysInMonth(y, m) THEN ValueError   \* day out of range
             ELSE [ok |-> TRUE, year |-> y, month |-> m, day |-> d]

validate_birthday(bday) == strptime(Strip(bday)).ok

validate_email(email) == EMAIL_RE(Strip(email))

\* re.sub(r"\D", "", phone)
DigitsOf(phone) == SelectSeq(phone, IsDigit)

validate_phone(phone) == Len(DigitsOf(phone)) >= 10

validate_address(addr) == Len(Strip(addr)) > 0

\* the values of the preferred-contact combobox
Email == <<"E", "m", "a", "i", "l">>

Phone == <<"P", "h", "o", "n", "e">>

Mail == <<"M", "a", "i", "l">>

validate_preferred_contact(choice) == choice \in {Email, Phone, Mail}

MsgName == "Please enter the customer's name."

MsgBirthday == "Birthday must be in YYYY-MM-DD format (e.g., 2001-09-15)."

MsgEmail == "Please enter a valid email address."

MsgPhone == "Please enter a valid phone number with at least 10 digits."

MsgAddress == "Please enter the address."

MsgContact == "Please choose a preferred contact method."

\* validate_all without its phone check
validate_all_skips_phone(f) ==
    IF ~validate_name(f.name) THEN <<FALSE, MsgName>>
    ELSE IF ~validate_birthday(f.birthday) THEN <<FALSE, MsgBirthday>>
    ELSE IF ~validate_email(f.email) THEN <<FALSE, MsgEmail>>
    ELSE IF ~validate_address(f.address) THEN <<FALSE, MsgAddress>>
    ELSE IF ~validate_preferred_contact(f.preferred_contact) THEN <<FALSE, MsgContact>>
    ELSE <<TRUE, "">>

\* validate_all checking the e-mail address before the birthday
validate_all_email_first(f) ==
    IF ~validate_name(f.name) THEN <<FALSE, MsgName>>
    ELSE IF ~validate_email(f.email) THEN <<FALSE, MsgEmail>>
    ELSE IF ~validate_birthday(f.birthday) THEN <<FALSE, MsgBirthday>>
    ELSE IF ~validate_phone(f.phone) THEN <<FALSE, MsgPhone>>
    ELSE IF ~validate_address(f.address) THEN <<FALSE, MsgAddress>>
    ELSE IF ~validate_preferred_contact(f.preferred_contact) THEN <<FALSE, MsgContact>>
    ELSE <<TRUE, "">>

\* the (bool, str) tuple returned by validate_all
validate_all(f) ==
    IF ~validate_name(f.name) THEN <<FALSE, MsgName>>
    ELSE IF ~validate_birthday(f.birthday) THEN <<FALSE, MsgBirthday>>
    ELSE IF ~validate_email(f.email) THEN <<FALSE, MsgEmail>>
    ELSE IF ~validate_phone(f.phone) THEN <<FALSE, MsgPhone>>
    ELSE IF ~validate_address(f.address) THEN <<FALSE, MsgAddress>>
    ELSE IF ~validate_preferred_contact(f.preferred_contact) THEN <<FALSE, MsgContact>>
    ELSE <<TRUE, "">>

-----------------------------------------------------------------------------
(* Database setup and persistence.  A fault is the place where sqlite3      *)
(* raises: in connect(), in cur.execute(), in conn.commit(), or nowhere.    *)

Faults == {"none", "connect", "execute", "commit"}

EmptyDb == [table_exists |-> FALSE, customers |-> <<>>, sqlite_sequence |-> 0]

\* init_db with DROP TABLE before CREATE TABLE
init_db_recreate(d, fault) ==
    IF fault \in {"connect", "execute"} THEN d
    ELSE [table_exists |-> TRUE, customers |-> <<>>, sqlite_sequence |-> 0]

\* CREATE TABLE IF NOT EXISTS customers (...): the file after init_db.  The
\* statement is not part of a transaction, so it has taken effect once
\* execute() returns, whatever commit() does afterwards.
init_db(d, fault) ==
    IF fault \in {"connect", "execute"} THEN d
    ELSE [d EXCEPT !.table_exists = TRUE]

init_db_raises(fault) == fault /= "none"

MaxId(rows) ==
    IF rows = <<>> THEN 0
    ELSE LET ids == {rows[i].id : i \in 1..Len(rows)}
         IN  CHOOSE m \in ids : \A k \in ids : k <= m

\* an id column that hands out the last id again
NextId_stale(d) ==
    IF MaxId(d.customers) > d.sqlite_sequence
    THEN MaxId(d.customers) ELSE d.sqlite_sequence

\* INTEGER PRIMARY KEY AUTOINCREMENT: one more than the largest id the table
\* holds or has ever held
NextId(d) ==
    (IF MaxId(d.customers) > d.sqlite_sequence
     THEN MaxId(d.customers) ELSE d.sqlite_sequence) + 1

\* the row the INSERT statement of insert_customer writes at time t
NewRow(d, f, t) ==
    [id                |-> NextId(d),
     name              |-> Strip(f.name),
     birthday          |-> Strip(f.birthday),
     email             |-> Strip(f.email),
     phone             |-> Strip(f.phone),
     address           |-> Strip(f.address),
     preferred_contact |-> f.preferred_contact,
     created_at        |-> t]

\* the statement fails where the fault says, or for want of the table
insert_raises(d, fault) == fault /= "none" \/ ~d.table_exists

\* an INSERT that is durable before commit() returns
insert_db_autocommit(d, f, fault, t) ==
    IF fault /= "commit" /\ insert_raises(d, fault) THEN d
    ELSE [d EXCEPT !.customers = Append(@, NewRow(d, f, t)),
                   !.sqlite_sequence = NextId(d)]

\* the file after insert_customer(f): nothing is written unless execute()
\* and commit() both return
insert_db(d, f, fault, t) ==
    IF insert_raises(d, fault) THEN d
    ELSE [d EXCEPT !.customers = Append(@, NewRow(d, f, t)),
                   !.sqlite_sequence = NextId(d)]

\* connections insert_customer leaves open: conn.close() is its last
\* statement, reached only when nothing raised after connect()
insert_leaks(d, fault) ==
    IF fault = "connect" THEN 0
    ELSE IF insert_raises(d, fault) THEN 1
    ELSE 0

\* what the caller of insert_customer(f) observes: the value returned is
\* None (the empty tuple here), rowid is the id the store assigned
insert_customer(d, f, fault, t) ==
    [args   |-> f,
     raised |-> insert_raises(d, fault),
     ret    |-> <<>>,
     rowid  |-> IF insert_raises(d, fault) THEN 0 ELSE NextId(d)]

-----------------------------------------------------------------------------
(* GUI. *)

\* the widgets as App.__init__ leaves them
InitialForm ==
    [name_var |-> <<>>, bday_var |-> <<>>, email_var |-> <<>>,
     phone_var |-> <<>>, address_text |-> <<>>, pref_var |-> Email]

\* Text.get("1.0", "end") is the text followed by the widget's final newline
get_form_data(w) ==
    [name              |-> w.name_var,
     birthday          |-> w.bday_var,
     email             |-> w.email_var,
     phone             |-> w.phone_var,
     address           |-> Strip(w.address_text \o <<"\n">>),
     preferred_contact |-> w.pref_var]

clear_form(w) ==
    [w EXCEPT !.name_var = <<>>, !.bday_var = <<>>, !.email_var = <<>>,
              !.phone_var = <<>>, !.address_text = <<>>, !.pref_var = Email]

NoDialog == <<>>

ValidationError(msg) == <<"showerror", "Validation Error", msg>>

DatabaseError == <<"showerror", "Database Error", "Could not save data:">>

Success == <<"showinfo", "Success", "Customer information saved.">>

\* on_submit calling clear_form before it validates
on_submit_clears_first(w, d, fault, t) ==
    LET data == get_form_data(w)
        v    == validate_all(data)
    IN  IF ~v[1]
        THEN [form |-> clear_form(w), db |-> d, dialog |-> ValidationError(v[2]),
              calls |-> <<>>, leaks |-> 0]
        ELSE IF insert_raises(d, fault)
        THEN [form |-> clear_form(w), db |-> insert_db(d, data, fault, t),
              dialog |-> DatabaseError,
              calls |-> <<insert_customer(d, data, fault, t)>>,
              leaks |-> insert_leaks(d, fault)]
        ELSE [form |-> clear_form(w), db |-> insert_db(d, data, fault, t),
              dialog |-> Success,
              calls |-> <<insert_customer(d, data, fault, t)>>,
              leaks |-> insert_leaks(d, fault)]

\* App.on_submit on widgets w and file d, the write failing as fault says:
\* the widgets, the file, the messagebox, the insert_customer calls made and
\* the connections left open when the handler returns
on_submit(w, d, fault, t) ==
    LET data == get_form_data(w)
        v    == validate_all(data)
    IN  IF ~v[1]
        THEN [form |-> w, db |-> d, dialog |-> ValidationError(v[2]),
              calls |-> <<>>, leaks |-> 0]
        ELSE IF insert_raises(d, fault)
        THEN [form |-> w, db |-> insert_db(d, data, fault, t),
              dialog |-> DatabaseError,
              calls |-> <<insert_customer(d, data, fault, t)>>,
              leaks |-> insert_leaks(d, fault)]
        ELSE [form |-> clear_form(w), db |-> insert_db(d, data, fault, t),
              dialog |-> Success,
              calls |-> <<insert_customer(d, data, fault, t)>>,
              leaks |-> insert_leaks(d, fault)]

-----------------------------------------------------------------------------
(* Inputs. *)

Fax == <<"F", "a", "x">>

PaddedChoice == <<" ", "E", "m", "a", "i", "l">>

NameAl == <<"A", "l">>

NamePadded == <<" ", "A", "l", " ">>

NameBlank == <<" ", "\t">>

Bday == <<"2", "0", "0", "1", "-", "0", "9", "-", "1", "5">>

BdayPadded == <<" ", "2", "0", "0", "1", "-", "0", "9", "-", "1", "5", " ">>

BdayShort == <<"2", "0", "0", "1", "-", "9", "-", "5">>

BdaySpaceDay == <<"2", "0", "0", "1", "-", "0", "9", "-", " ", "5">>

BdayLeap == <<"2", "0", "2", "0", "-", "0", "2", "-", "2", "9">>

BdayMonth13 == <<"2", "0", "2", "1", "-", "1", "3", "-", "4", "0">>

BdayFeb30 == <<"2", "0", "2", "1", "-", "0", "2", "-", "3", "0">>

BdayYear0 == <<"0", "0", "0", "0", "-", "0", "1", "-", "0", "1">>

BdayDay35 == <<"2", "0", "0", "1", "-", "0", "1", "-", "3", "5">>

BdaySlashes == <<"0", "9", "/", "1", "5", "/", "2", "0", "0", "1">>

Mailbox == <<"a", "@", "b", ".", "c", "o">>

MailboxPadded == <<" ", "a", "@", "b", ".", "c", "o", "\n">>

MailboxNoAt == <<"a", "b", ".", "c", "o">>

MailboxNoDot == <<"a", "@", "b", "c", "o">>

MailboxSpace == <<"a", " ", "@", "b", ".", "c", "o">>

MailboxTwoAt == <<"a", "@", "@", "b", ".", "c", "o">>

PhoneParens == <<"(", "5", "5", "5", ")", " ", "1", "2", "3", "-", "4", "5", "6", "7">>

PhoneShort == <<"5", "5", "5", "-", "1", "2", "3", "4">>

PhonePadded == <<" ", "5", "5", "5", "1", "2", "3", "4", "5", "6", "7", " ">>

Addr == <<"1", " ", "S", "t">>

AddrLines == <<" ", "1", " ", "S", "t", "\n", "A", "p", "t", " ", "2", "\n">>

AddrBlank == <<" ", "\n">>

W(n, b, e, p, a, c) ==
    [name_var |-> n, bday_var |-> b, email_var |-> e,
     phone_var |-> p, address_text |-> a, pref_var |-> c]

F(n, b, e, p, a, c) ==
    [name |-> n, birthday |-> b, email |-> e,
     phone |-> p, address |-> a, preferred_contact |-> c]

\* what the user may have typed into the widgets when a button is pressed;
\* the combobox is read-only, so pref_var is one of its three values
FormInputs ==
    {W(NamePadded, Bday, Mailbox, PhoneParens, AddrLines, Email),
     W(NameAl, BdayPadded, MailboxPadded, PhonePadded, Addr, Phone),
     W(NameAl, BdayShort, Mailbox, PhoneParens, Addr, Mail),
     W(NameAl, BdaySpaceDay, Mailbox, PhoneParens, Addr, Email),
     W(NameBlank, BdayMonth13, Mailbox, PhoneParens, Addr, Email),
     W(NameAl, BdayFeb30, Mailbox, PhoneParens, Addr, Email),
     W(NameAl, Bday, MailboxNoDot, PhoneShort, Addr, Email),
     W(NameAl, Bday, MailboxSpace, PhoneParens, Addr, Email),
     W(NameAl, Bday, Mailbox, PhoneShort, Addr, Email),
     W(NameAl, Bday, Mailbox, PhoneParens, AddrBlank, Phone)}

\* field mappings a caller of the module may pass to insert_customer
LibInputs ==
    {F(NameAl, Bday, Mailbox, PhoneParens, Addr, Email),
     F(NamePadded, BdayPadded, MailboxPadded, PhonePadded, AddrLines, Phone),
     F(NameAl, Bday, Mailbox, PhoneParens, Addr, PaddedChoice),
     F(NameAl, Bday, Mailbox, PhoneShort, Addr, Mail),
     F(NameBlank, BdayMonth13, MailboxNoAt, PhoneShort, AddrBlank, Fax)}

NameInputs == {<<>>, NameBlank, NameAl, NamePadded}

BirthdayInputs ==
    {<<>>, Bday, BdayPadded, BdayShort, BdaySpaceDay, BdayLeap, BdayMonth13,
     BdayFeb30, BdayYear0, BdayDay35, BdaySlashes}

EmailInputs ==
    {Mailbox, MailboxPadded, MailboxNoAt, MailboxNoDot, MailboxSpace, MailboxTwoAt}

PhoneInputs == {PhoneParens, PhoneShort, PhonePadded}

AddressInputs == {<<>>, Addr, AddrLines, AddrBlank}

ContactInputs == {<<>>, Email, Phone, Mail, Fax, PaddedChoice}

\* field mappings passed to validate_all
ValidateInputs ==
    {F(n, b, e, p, a, c) : n \in NameInputs, b \in BirthdayInputs,
                           e \in EmailInputs, p \in PhoneInputs,
                           a \in AddressInputs, c \in ContactInputs}

-----------------------------------------------------------------------------
(* The application: python fridayproject5.py. *)

Init ==
    /\ running = FALSE
    /\ form = InitialForm
    /\ db = EmptyDb
    /\ now = 0
    /\ open_conns = 0
    /\ op = "none"
    /\ dialog = NoDialog
    /\ calls = <<>>
    /\ fields = F(<<>>, <<>>, <<>>, <<>>, <<>>, <<>>)
    /\ result = <<>>

\* __main__: init_db(), then App() and mainloop(); an exception of init_db
\* ends the process before the window exists
Main ==
    /\ ~running
    /\ \E fault \in Faults :
        /\ db' = init_db(db, fault)
        /\ running' = ~init_db_raises(fault)
    /\ form' = InitialForm
    /\ op' = "main"
    /\ dialog' = NoDialog
    /\ calls' = <<>>
    /\ UNCHANGED <<now, open_conns, fields, result>>

\* the window is closed: the process ends and with it every connection
Quit ==
    /\ running
    /\ running' = FALSE
    /\ form' = InitialForm
    /\ open_conns' = 0
    /\ op' = "quit"
    /\ dialog' = NoDialog
    /\ calls' = <<>>
    /\ UNCHANGED <<db, now, fields, result>>

\* the user edits the widgets
UserEdit ==
    /\ running
    /\ \E w \in FormInputs : form' = w
    /\ op' = "edit"
    /\ dialog' = NoDialog
    /\ calls' = <<>>
    /\ UNCHANGED <<running, db, now, open_conns, fields, result>>

\* the Clear Form button
ClearForm ==
    /\ running
    /\ form' = clear_form(form)
    /\ op' = "clear_form"
    /\ dialog' = NoDialog
    /\ calls' = <<>>
    /\ UNCHANGED <<running, db, now, open_conns, fields, result>>

\* the Submit button
OnSubmit ==
    /\ running
    /\ \E fault \in Faults : \E r \in {on_submit(form, db, fault, now)} :
        /\ Len(r.db.customers) <= MaxRows
        /\ open_conns + r.leaks <= MaxLeaks
        /\ form' = r.form
        /\ db' = r.db
        /\ dialog' = r.dialog
        /\ calls' = r.calls
        /\ open_conns' = open_conns + r.leaks
    /\ op' = "on_submit"
    /\ UNCHANGED <<running, now, fields, result>>

\* time passes
Tick ==
    /\ now < MaxClock
    /\ now' = now + 1
    /\ op' = "tick"
    /\ dialog' = NoDialog
    /\ calls' = <<>>
    /\ UNCHANGED <<running, form, db, open_conns, fields, result>>

\* the interpreter finalizes a connection object nothing refers to any more,
\* which closes it
Collect ==
    /\ open_conns > 0
    /\ open_conns' = open_conns - 1
    /\ op' = "collect"
    /\ dialog' = NoDialog
    /\ calls' = <<>>
    /\ UNCHANGED <<running, form, db, now, fields, result>>

Next == Main \/ Quit \/ UserEdit \/ ClearForm \/ OnSubmit \/ Tick \/ Collect

Spec == Init /\ [][Next]_vars

-----------------------------------------------------------------------------
(* The module used as a library: init_db and insert_customer called         *)
(* directly, in any order, with any field mapping.                          *)

InitDbCall ==
    /\ \E fault \in Faults : db' = init_db(db, fault)
    /\ op' = "init_db"
    /\ dialog' = NoDialog
    /\ calls' = <<>>
    /\ UNCHANGED <<running, form, now, open_conns, fields, result>>

InsertCustomerCall ==
    /\ \E f \in LibInputs : \E fault \in Faults :
        /\ Len(insert_db(db, f, fault, now).customers) <= MaxRows
        /\ open_conns + insert_leaks(db, fault) <= MaxLeaks
        /\ db' = insert_db(db, f, fault, now)
        /\ calls' = <<insert_customer(db, f, fault, now)>>
        /\ open_conns' = open_conns + insert_leaks(db, fault)
    /\ op' = "insert_customer"
    /\ dialog' = NoDialog
    /\ UNCHANGED <<running, form, now, fields, result>>

NextLib == InitDbCall \/ InsertCustomerCall \/ Tick \/ Collect

SpecLib == Init /\ [][NextLib]_vars

-----------------------------------------------------------------------------
(* validate_all as a function of its argument. *)

InitValidate ==
    /\ running = FALSE
    /\ form = InitialForm
    /\ db = EmptyDb
    /\ now = 0
    /\ open_conns = 0
    /\ op = "none"
    /\ dialog = NoDialog
    /\ calls = <<>>
    /\ fields \in ValidateInputs
    /\ result = <<>>

ValidateAllCall ==
    /\ op = "none"
    /\ result' = validate_all(fields)
    /\ op' = "validate_all"
    /\ UNCHANGED <<running, form, db, now, open_conns, dialog, calls, fields>>

NextValidate == ValidateAllCall

SpecValidate == InitValidate /\ [][NextValidate]_vars

-----------------------------------------------------------------------------
(* Properties. *)

Rows == {db.customers[i] : i \in 1..Len(db.customers)}

\* the six user-supplied fields of a stored row, as a field mapping
RowFields(row) ==
    F(row.name, row.birthday, row.email, row.phone, row.address,
      row.preferred_contact)

\* validator number k, in the order of the form
Passes(f, k) ==
    CASE k = 1 -> validate_name(f.name)
      [] k = 2 -> validate_birthday(f.birthday)
      [] k = 3 -> validate_email(f.email)
      [] k = 4 -> validate_phone(f.phone)
      [] k = 5 -> validate_address(f.address)
      [] k = 6 -> validate_preferred_contact(f.preferred_contact)

Reason(k) == <<MsgName, MsgBirthday, MsgEmail, MsgPhone, MsgAddress, MsgContact>>[k]

Failing(f) == {k \in 1..6 : ~Passes(f, k)}

First(S) == CHOOSE k \in S : \A j \in S : k <= j

\* C1: under the application, every row of the customers table passes all
\* six field validators, and a Submit whose fields fail validation leaves
\* the table as it was.
C1_StoredRowsValid ==
    /\ [](\A row \in Rows : Failing(RowFields(row)) = {})
    /\ [][(op' = "on_submit" /\ Failing(get_form_data(form)) /= {})
            => db' = db]_vars

C1_Witness ==
    /\ Len(db.customers) >= 2
    /\ op = "on_submit"
    /\ dialog = ValidationError(MsgPhone)

\* C2: a call of insert_customer with a field mapping validate_all rejects
\* leaves the customers table unchanged.
C2_InsertRejectsInvalid ==
    [][(op' = "insert_customer" /\ ~validate_all(calls'[1].args)[1])
         => db'.customers = db.customers]_vars

\* C3: validate_all returns (False, reason of the first field, in the order
\* name, birthday, email, phone, address, preferred_contact, whose validator
\* fails), and (True, "") exactly when all six validators pass.
C3_FirstFailureReported ==
    op = "validate_all" =>
        /\ Failing(fields) /= {} =>
               result = <<FALSE, Reason(First(Failing(fields)))>>
        /\ result = <<TRUE, "">> <=> Failing(fields) = {}

C3_Witness ==
    /\ op = "validate_all"
    /\ Failing(fields) = {2, 5, 6}
    /\ result = <<FALSE, MsgBirthday>>

NoOuterWhitespace(s) == Strip(s) = s

\* C5: no text field of a stored row has leading or trailing whitespace,
\* whatever field mapping insert_customer was given.
C5_StoredFieldsTrimmed ==
    \A row \in Rows :
        /\ NoOuterWhitespace(row.name)
        /\ NoOuterWhitespace(row.birthday)
        /\ NoOuterWhitespace(row.email)
        /\ NoOuterWhitespace(row.phone)
        /\ NoOuterWhitespace(row.address)
        /\ NoOuterWhitespace(row.preferred_contact)

\* C6: a Submit that fails validation shows the reason validate_all returns,
\* makes no insert_customer call, and leaves the store and the widgets as
\* they were.
C6_FailedSubmitChangesNothing ==
    [][(op' = "on_submit" /\ Failing(get_form_data(form)) /= {}) =>
          /\ dialog' = ValidationError(Reason(First(Failing(get_form_data(form)))))
          /\ calls' = <<>>
          /\ db' = db
          /\ form' = form]_vars

C6_Witness ==
    /\ op = "on_submit"
    /\ dialog = ValidationError(MsgAddress)
    /\ form \in FormInputs
    /\ Len(db.customers) >= 1

\* C7: when the write of a Submit of valid fields fails, the failure is
\* shown as a database error (neither a validation error nor success), no
\* row is added, insert_customer was called once only, and the widgets keep
\* their contents.
C7_WriteFailureSurfaced ==
    [][(op' = "on_submit" /\ calls' /= <<>> /\ calls'[1].raised) =>
          /\ dialog'[2] = "Database Error"
          /\ dialog' /= Success
          /\ dialog' /= ValidationError(dialog'[3])
          /\ db' = db
          /\ Len(calls') = 1
          /\ form' = form]_vars

C7_Witness ==
    /\ op = "on_submit"
    /\ dialog = DatabaseError
    /\ Len(calls) = 1
    /\ form \in FormInputs
    /\ Len(db.customers) >= 1

\* C8: init_db changes no existing row (id and created_at included) at
\* whatever point it is called, and a second call changes nothing the first
\* did not.
C8_InitDbIdempotent ==
    /\ [](init_db(init_db(db, "none"), "none") = init_db(db, "none"))
    /\ [][op' = "init_db" =>
            /\ db'.customers = db.customers
            /\ db'.sqlite_sequence = db.sqlite_sequence
            /\ (db.table_exists => db' = db)]_vars

C8_Witness ==
    /\ op = "init_db"
    /\ Len(db.customers) >= 2
    /\ db.customers[1].created_at < db.customers[2].created_at

Canonical(b) ==
    /\ Len(b) = 10
    /\ \A k \in {1, 2, 3, 4, 6, 7, 9, 10} : IsDigit(b[k])
    /\ b[5] = "-"
    /\ b[8] = "-"
    /\ strptime(b).ok

\* C9: every stored birthday is a real calendar date in the zero-padded
\* form YYYY-MM-DD.
C9_BirthdayCanonical == \A row \in Rows : Canonical(row.birthday)

\* C10: no connection opened by insert_customer remains open once the call
\* has ended, whether or not the write raised.
C10_ConnectionsClosed == op = "insert_customer" => open_conns = 0

====
